---- MODULE Spec2Model ----
(***************************************************************************)
(* Model of leyid.py, the InnovaChile Corfo dashboard.  The script is run  *)
(* from top to bottom once per user interaction (upload, filter change,    *)
(* file removal); one action of Spec is one such run.  The two pure        *)
(* conversions of the cleaning step, the column-name standardisation and   *)
(* the amount coercion, are also explored alone over all short strings in  *)
(* SpecHeader and SpecCurrency.                                            *)
(*                                                                         *)
(* Python strings are sequences of one-character strings.  A float is a    *)
(* decimal m / 10^e (no trailing zero in the fraction) or NaN.             *)
(***************************************************************************)
EXTENDS Integers, Sequences, FiniteSets, TLC

VARIABLES
    uploaded_file,        \* what st.sidebar.file_uploader returns
    df,                   \* the cleaned table, or None
    slider,               \* the year slider's min_value, max_value and default value
    ano_seleccionado,     \* the slider's value <<lo, hi>>
    region_seleccionada,  \* the region multiselect's value
    sector_seleccionado,  \* the sector multiselect's value
    df_filtrado,          \* the rows of the filtered view
    metrics,              \* total_proyectos, inversion_innova, inversion_privada
    rendered,             \* what the run put on the page
    outcome,              \* how the run ended
    header,               \* SpecHeader: a raw column header
    column_name,          \* SpecHeader: its standardised name
    hstep,                \* SpecHeader: "raw" or "clean"
    cell,                 \* SpecCurrency: a raw amount string
    cleaned,              \* SpecCurrency: the coerced amount
    cstep                 \* SpecCurrency: "raw" or "clean"

dashboard_vars ==
    <<uploaded_file, df, slider, ano_seleccionado, region_seleccionada,
      sector_seleccionado, df_filtrado, metrics, rendered, outcome>>
header_vars == <<header, column_name, hstep>>
currency_vars == <<cell, cleaned, cstep>>
vars == <<dashboard_vars, header_vars, currency_vars>>

\* ------------------------------------------------------------------ bounds

\* Rows of an uploaded sheet.
MaxRows == 2
\* Characters of a raw header explored by SpecHeader.
MaxHeaderLen == 3
\* Characters of a raw amount explored by SpecCurrency.
MaxCellLen == 5

\* ----------------------------------------------------------------- strings

Digits == {"0", "1", "2", "3", "4", "5", "6", "7", "8", "9"}

DigitValue(c) ==
    CASE c = "0" -> 0 [] c = "1" -> 1 [] c = "2" -> 2 [] c = "3" -> 3
      [] c = "4" -> 4 [] c = "5" -> 5 [] c = "6" -> 6 [] c = "7" -> 7
      [] c = "8" -> 8 [] c = "9" -> 9

DigitChar(d) == <<"0", "1", "2", "3", "4", "5", "6", "7", "8", "9">>[d + 1]

LowerLetters ==
    <<"a","b","c","d","e","f","g","h","i","j","k","l","m","n","o","p","q",
      "r","s","t","u","v","w","x","y","z","ñ">>

UpperLetters ==
    <<"A","B","C","D","E","F","G","H","I","J","K","L","M","N","O","P","Q",
      "R","S","T","U","V","W","X","Y","Z","Ñ">>

\* What str.strip() removes at both ends.
Whitespace == {" "}

Pow10(n) == IF n = 0 THEN 1 ELSE LET p[i \in 0..n] == IF i = 0 THEN 1 ELSE 10 * p[i - 1] IN p[n]

\* The capital of each small letter.
UpperOf ==
    [c \in {LowerLetters[i] : i \in 1..Len(LowerLetters)} |->
        UpperLetters[CHOOSE i \in 1..Len(LowerLetters) : LowerLetters[i] = c]]

\* str.upper() on one character.
upper_char(c) == IF c \in DOMAIN UpperOf THEN UpperOf[c] ELSE c

\* str.upper()
str_upper(s) == [i \in 1..Len(s) |-> upper_char(s[i])]

\* str.replace(old, new) for a one-character old.
str_replace(s, old, new) == [i \in 1..Len(s) |-> IF s[i] = old THEN new ELSE s[i]]

\* str.strip(): drop the whitespace at both ends.
str_strip(s) ==
    LET keep == {i \in 1..Len(s) : s[i] \notin Whitespace}
        first == CHOOSE i \in keep : \A j \in keep : i <= j
        last == CHOOSE i \in keep : \A j \in keep : j <= i
    IN IF keep = {} THEN <<>> ELSE SubSeq(s, first, last)

\* re.sub(r'[^\d.]', '', s): keep the digits and the dots, in order.
strip_non_numeric(s) == SelectSeq(s, LAMBDA c : c \in Digits \cup {"."})

\* df.columns.str.strip().str.replace(' ', '_').str.upper(), for one header.
NormalizeHeader(h) == str_upper(str_replace(str_strip(h), " ", "_"))

\* ------------------------------------------------------------------ values

\* A cell of the sheet, and a value of a cleaned column: a string, a number
\* m / 10^e, or null (NaN, NaT, an empty cell).
StrCell(s) == [t |-> "str", s |-> s, m |-> 0, e |-> 0]
NullCell == [t |-> "null", s |-> <<>>, m |-> 0, e |-> 0]

\* The decimal m / 10^e in lowest form, so that equal numbers are equal cells.
NumCell(m, e) ==
    LET k == CHOOSE k \in 0..e :
                 /\ m % Pow10(k) = 0
                 /\ \A j \in (k + 1)..e : m % Pow10(j) # 0
    IN [t |-> "num", s |-> <<>>, m |-> m \div Pow10(k), e |-> e - k]

\* The integer written by a sequence of digits.
DigitsToInt(ds) ==
    LET v[i \in 0..Len(ds)] == IF i = 0 THEN 0 ELSE 10 * v[i - 1] + DigitValue(ds[i])
    IN v[Len(ds)]

\* The digits of a natural number.
RECURSIVE IntToDigits(_)
IntToDigits(n) == IF n < 10 THEN <<DigitChar(n)>> ELSE Append(IntToDigits(n \div 10), DigitChar(n % 10))

\* The fraction's digits, e of them.
FracDigits(f, e) ==
    [i \in 1..e |-> DigitChar((f \div Pow10(e - i)) % 10)]

\* str(x) of a non-negative number, as Series.astype(str) writes it.
NumToStr(c) ==
    IF c.e = 0 THEN IntToDigits(c.m)
    ELSE IntToDigits(c.m \div Pow10(c.e)) \o <<".">> \o FracDigits(c.m % Pow10(c.e), c.e)

\* Series.astype(str), for one cell: a missing cell becomes the text "nan".
astype_str(c) ==
    CASE c.t = "str" -> c.s
      [] c.t = "num" -> NumToStr(c)
      [] c.t = "null" -> <<"n", "a", "n">>

\* pd.to_numeric(errors='coerce') of a string of digits, dots and other
\* characters without sign or exponent: digits around at most one dot are a
\* number, anything else (the empty string too) is NaN.
ParseFloat(s) ==
    LET dots == {i \in 1..Len(s) : s[i] = "."}
        digs == SelectSeq(s, LAMBDA c : c \in Digits)
        plain == \A i \in 1..Len(s) : s[i] \in Digits \cup {"."}
    IN IF plain /\ Cardinality(dots) <= 1 /\ Len(digs) >= 1
       THEN NumCell(DigitsToInt(digs),
                    IF dots = {} THEN 0 ELSE Len(s) - (CHOOSE i \in dots : TRUE))
       ELSE NullCell

\* pd.to_numeric(errors='coerce'), for one cell.
to_numeric(c) ==
    CASE c.t = "str" -> ParseFloat(c.s)
      [] c.t = "num" -> c
      [] c.t = "null" -> NullCell

\* Mutant of CleanFloat: the amounts get the year column's fillna(0).
CleanFloatFillZero(c) ==
    LET n == ParseFloat(strip_non_numeric(astype_str(c)))
    IN IF n.t = "null" THEN NumCell(0, 0) ELSE n

\* The float branch: pd.to_numeric(astype(str).str.replace(r'[^\d.]', ''), errors='coerce').
CleanFloat(c) == ParseFloat(strip_non_numeric(astype_str(c)))

\* Mutant of CleanInt: fillna(0) left out.
CleanIntNoFill(c) ==
    LET n == to_numeric(c)
    IN IF n.t = "null" THEN NullCell ELSE NumCell(n.m \div Pow10(n.e), 0)

\* The int branch: pd.to_numeric(errors='coerce').fillna(0).astype(int);
\* astype(int) drops the fraction.
CleanInt(c) ==
    LET n == to_numeric(c)
    IN IF n.t = "null" THEN NumCell(0, 0) ELSE NumCell(n.m \div Pow10(n.e), 0)

\* ------------------------------------------------ the conversions on their own

HeaderAlphabet == {" ", "a", "A", "_", "."}
CellAlphabet == {"$", ".", "1", "0", "N"}

StringsUpTo(alphabet, n) == UNION {[1..k -> alphabet] : k \in 0..n}

HeaderInit ==
    /\ header \in StringsUpTo(HeaderAlphabet, MaxHeaderLen)
    /\ column_name = <<>>
    /\ hstep = "raw"

\* Line 31 applied to one header.
StandardizeHeader ==
    /\ hstep = "raw"
    /\ column_name' = NormalizeHeader(header)
    /\ hstep' = "clean"
    /\ UNCHANGED <<header, dashboard_vars, currency_vars>>

CurrencyInit ==
    /\ cell \in StringsUpTo(CellAlphabet, MaxCellLen)
    /\ cleaned = NullCell
    /\ cstep = "raw"

\* Lines 47-50 applied to one value of an amount column.
CleanAmount ==
    /\ cstep = "raw"
    /\ cleaned' = CleanFloat(StrCell(cell))
    /\ cstep' = "clean"
    /\ UNCHANGED <<cell, dashboard_vars, header_vars>>

\* ---------------------------------------------------------------- the table

\* The column names the script looks up.
FINANCIAMIENTO_INNOVA ==
    <<"F","I","N","A","N","C","I","A","M","I","E","N","T","O","_","I","N","N","O","V","A">>
APROBADO_PRIVADO_PECUNIARIO ==
    <<"A","P","R","O","B","A","D","O","_","P","R","I","V","A","D","O","_","P","E","C","U","N","I","A","R","I","O">>
MONTO_CERTIFICADO_LEY ==
    <<"M","O","N","T","O","_","C","E","R","T","I","F","I","C","A","D","O","_","L","E","Y">>
INICIO_ACTIVIDAD_ECONOMICA ==
    <<"I","N","I","C","I","O","_","A","C","T","I","V","I","D","A","D","_","E","C","O","N","O","M","I","C","A">>
REGION ==
    <<"R","E","G","I","O","N">>
SECTOR_ECONOMICO ==
    <<"S","E","C","T","O","R","_","E","C","O","N","O","M","I","C","O">>
TIPO_INNOVACION ==
    <<"T","I","P","O","_","I","N","N","O","V","A","C","I","O","N">>
ANO_ADJUDICACION ==
    <<"A","Ñ","O","_","A","D","J","U","D","I","C","A","C","I","O","N">>

\* Lines 35-41: the designated columns and the type each is coerced to.
columns_to_clean ==
    (FINANCIAMIENTO_INNOVA :> "float") @@ (APROBADO_PRIVADO_PECUNIARIO :> "float")
    @@ (MONTO_CERTIFICADO_LEY :> "float") @@ (INICIO_ACTIVIDAD_ECONOMICA :> "datetime")
    @@ (ANO_ADJUDICACION :> "int")

\* The columns of a sheet, by position.
Fields == {"year", "region", "sector", "tipo", "fin", "priv", "monto", "inicio"}

\* No file, no table.
None == [kind |-> "None"]

\* A calendar date, yyyymmdd.
DateCell(d) == [t |-> "date", s |-> <<>>, m |-> d, e |-> 0]

\* pd.to_datetime(errors='coerce') of a text: an ISO date yyyy-mm-dd is that
\* date, a text without any digit is NaT.
ParseDate(s) ==
    LET digs == SelectSeq(s, LAMBDA c : c \in Digits)
        iso == /\ Len(s) = 10
               /\ s[5] = "-" /\ s[8] = "-"
               /\ \A i \in (1..10) \ {5, 8} : s[i] \in Digits
        yy == DigitsToInt(SubSeq(s, 1, 4))
        mm == DigitsToInt(SubSeq(s, 6, 7))
        dd == DigitsToInt(SubSeq(s, 9, 10))
        leap == yy % 4 = 0 /\ (yy % 100 # 0 \/ yy % 400 = 0)
        days == CASE mm = 2 -> IF leap THEN 29 ELSE 28
                  [] mm \in {4, 6, 9, 11} -> 30
                  [] OTHER -> 31
    IN IF iso /\ yy >= 1 /\ mm \in 1..12 /\ dd \in 1..days
       THEN DateCell(DigitsToInt(digs))
       ELSE NullCell

\* pd.to_datetime(errors='coerce'), for one cell of dates, texts and blanks.
to_datetime(c) ==
    CASE c.t = "date" -> c
      [] c.t = "str" -> ParseDate(c.s)
      [] c.t = "null" -> NullCell

\* Lines 45-56: the coercion of one value by the column's type.
CleanCell(dtype, c) ==
    CASE dtype = "float" -> CleanFloat(c)
      [] dtype = "datetime" -> to_datetime(c)
      [] dtype = "int" -> CleanInt(c)

\* col in df.columns
HasColumn(table, col) == \E k \in Fields : table.columns[k] = col

\* df[col]: the position of the column named col.
ColumnOf(table, col) == CHOOSE k \in Fields : table.columns[k] = col

\* Lines 43-56: every designated column that is present is coerced, the
\* others are left as read.
CleanColumns(table) ==
    [table EXCEPT !.rows =
        [i \in 1..Len(table.rows) |->
            [k \in Fields |->
                IF table.columns[k] \in DOMAIN columns_to_clean
                THEN CleanCell(columns_to_clean[table.columns[k]], table.rows[i][k])
                ELSE table.rows[i][k]]]]

\* Lines 26-64: read the sheet, standardise the names, coerce the columns.
\* A workbook that cannot be read, or a header row of numbers only (the .str
\* accessor refuses it), raises inside the try.
Load(file) ==
    IF file.kind = "corrupt"
    THEN [ok |-> FALSE, e |-> file.cause, df |-> None]
    ELSE IF \A k \in Fields : file.headers[k].t # "str"
    THEN [ok |-> FALSE, e |-> "AttributeError", df |-> None]
    ELSE [ok |-> TRUE, e |-> "",
          df |-> CleanColumns(
                   [kind |-> "DataFrame",
                    columns |-> [k \in Fields |-> NormalizeHeader(file.headers[k].s)],
                    rows |-> file.rows])]

\* ------------------------------------------------------------------ inputs

\* A header row whose names the script recognises once standardised.
GoodHeaders ==
    [k \in Fields |->
        CASE k = "year" -> StrCell(<<"A","ñ","o"," ","A","d","j","u","d","i","c","a","c","i","o","n">>)
          [] k = "region" -> StrCell(<<"R","e","g","i","o","n">>)
          [] k = "sector" -> StrCell(<<"S","e","c","t","o","r"," ","E","c","o","n","o","m","i","c","o">>)
          [] k = "tipo" -> StrCell(<<" ","T","i","p","o"," ","I","n","n","o","v","a","c","i","o","n">>)
          [] k = "fin" -> StrCell(<<" ","F","i","n","a","n","c","i","a","m","i","e","n","t","o"," ","I","n","n","o","v","a">>)
          [] k = "priv" -> StrCell(<<"A","p","r","o","b","a","d","o"," ","P","r","i","v","a","d","o"," ","P","e","c","u","n","i","a","r","i","o"," ">>)
          [] k = "monto" -> StrCell(<<"m","o","n","t","o"," ","c","e","r","t","i","f","i","c","a","d","o"," ","l","e","y">>)
          [] k = "inicio" -> StrCell(<<"I","N","I","C","I","O","_","A","C","T","I","V","I","D","A","D","_","E","C","O","N","O","M","I","C","A">>)]

\* For each column, a header the standardisation does not turn into the
\* expected name: another wording, or the expected words with punctuation.
OtherHeaders ==
    [k \in Fields |->
        CASE k = "year" -> StrCell(<<"A","ñ","o">>)
          [] k = "region" -> StrCell(<<"R","e","g","i","ó","n">>)
          [] k = "sector" -> StrCell(<<"S","e","c","t","o","r">>)
          [] k = "tipo" -> StrCell(<<"T","i","p","o">>)
          [] k = "fin" -> StrCell(<<"F","i","n","a","n","c","i","a","m","i","e","n","t","o"," ","I","n","n","o","v","a"," ","(","$",")">>)
          [] k = "priv" -> StrCell(<<"A","p","r","o","b","a","d","o"," ","P","r","i","v","a","d","o"," ","(","P","e","c","u","n","i","a","r","i","o",")">>)
          [] k = "monto" -> StrCell(<<"M","o","n","t","o"," ","C","e","r","t","i","f","i","c","a","d","o"," ","L","e","y",".">>)
          [] k = "inicio" -> StrCell(<<"I","n","i","c","i","o"," ","A","c","t","i","v","i","d","a","d">>)]

\* Rows as a sheet may hold them: numbers, amounts as text, blanks, texts
\* that are no number.
SampleRows ==
    { [year |-> NumCell(2018, 0), region |-> StrCell(<<"R","M">>), sector |-> StrCell(<<"T","I","C">>), tipo |-> StrCell(<<"P","r","o","d","u","c","t","o">>),
       fin |-> StrCell(<<"$","1",".","0","0","0",".","0","0","0">>), priv |-> NumCell(200, 0),
       monto |-> StrCell(<<"1","5","0","0">>), inicio |-> DateCell(20180305)],
      [year |-> StrCell(<<"2","0","2","0">>), region |-> StrCell(<<"B","I","O">>), sector |-> StrCell(<<"A","G","R","O">>), tipo |-> StrCell(<<"P","r","o","c","e","s","o">>),
       fin |-> StrCell(<<"1","5","0","0">>), priv |-> NullCell,
       monto |-> NullCell, inicio |-> StrCell(<<"N","/","D">>)],
      [year |-> StrCell(<<"N","/","D">>), region |-> StrCell(<<"R","M">>), sector |-> StrCell(<<"A","G","R","O">>), tipo |-> NullCell,
       fin |-> StrCell(<<"N","/","D">>), priv |-> StrCell(<<"$","5","0">>),
       monto |-> NumCell(105, 1), inicio |-> NullCell],
      [year |-> NumCell(20197, 1), region |-> NullCell, sector |-> StrCell(<<"T","I","C">>), tipo |-> StrCell(<<"P","r","o","d","u","c","t","o">>),
       fin |-> NumCell(25005, 1), priv |-> NumCell(100, 0),
       monto |-> StrCell(<<"$","7">>), inicio |-> StrCell(<<"2","0","1","9","-","0","2","-","2","9">>)],
      [year |-> NullCell, region |-> StrCell(<<"B","I","O">>), sector |-> NullCell, tipo |-> StrCell(<<"P","r","o","c","e","s","o">>),
       fin |-> NullCell, priv |-> StrCell(<<"1",".","5">>),
       monto |-> NumCell(3, 0), inicio |-> StrCell(<<"2","0","2","0","-","0","2","-","2","9">>)] }

\* A header row of numbers only.
NumericHeaders == [k \in Fields |-> NumCell(1, 0)]

\* The positions of the designated columns.
Designated == {"year", "fin", "priv", "monto", "inicio"}

\* The header rows uploaded: all names as expected, one designated column
\* under a name the script does not recognise, or numbers only.
HeaderRows ==
    {GoodHeaders, NumericHeaders}
        \cup {[GoodHeaders EXCEPT ![k] = OtherHeaders[k]] : k \in Designated}

Sheets ==
    {[kind |-> "xlsx", headers |-> h, rows |-> r] :
        h \in HeaderRows, r \in UNION {[1..n -> SampleRows] : n \in 0..MaxRows}}

\* Files pd.read_excel cannot read, with what it raises.
CorruptFiles == {[kind |-> "corrupt", cause |-> c] : c \in {"BadZipFile", "ValueError"}}

Files == Sheets \cup CorruptFiles

\* The values of the year slider the user is taken to try.
YearStops == {0, 2018, 2019, 2020}

\* Load(f) for every file the user may upload, worked out once: TLC would
\* otherwise evaluate the rule of a function at each of its applications.
Loaded == [f \in Files |-> Load(f)] @@ <<>>

\* ------------------------------------------------------------------ the run

\* sorted(df[col].unique()) of the year column, as a set.
Years(table) ==
    {table.rows[i][ColumnOf(table, ANO_ADJUDICACION)].m : i \in 1..Len(table.rows)}

\* df[col].dropna().unique(): the texts of a column, blanks left out.
Options(table, col) ==
    {table.rows[i][ColumnOf(table, col)].s :
        i \in {j \in 1..Len(table.rows) : table.rows[j][ColumnOf(table, col)].t # "null"}}

SetMin(S) == CHOOSE x \in S : \A y \in S : x <= y
SetMax(S) == CHOOSE x \in S : \A y \in S : y <= x

\* Mutant of Filter: the upper end of the year range is left out.
FilterUpperExclusive(table, anos, regiones, sectores) ==
    LET y == ColumnOf(table, ANO_ADJUDICACION)
        r == ColumnOf(table, REGION)
        s == ColumnOf(table, SECTOR_ECONOMICO)
    IN SelectSeq(table.rows,
                 LAMBDA row : /\ row[y].m >= anos[1]
                              /\ row[y].m < anos[2]
                              /\ row[r].t = "str" /\ row[r].s \in regiones
                              /\ row[s].t = "str" /\ row[s].s \in sectores)

\* Lines 100-105: the rows whose year is in the range and whose region and
\* sector are among the selected ones, in the table's order.
Filter(table, anos, regiones, sectores) ==
    LET y == ColumnOf(table, ANO_ADJUDICACION)
        r == ColumnOf(table, REGION)
        s == ColumnOf(table, SECTOR_ECONOMICO)
    IN SelectSeq(table.rows,
                 LAMBDA row : /\ row[y].m >= anos[1]
                              /\ row[y].m <= anos[2]
                              /\ row[r].t = "str" /\ row[r].s \in regiones
                              /\ row[s].t = "str" /\ row[s].s \in sectores)

\* a + b for two decimals.
Plus(a, b) ==
    LET e == IF a.e >= b.e THEN a.e ELSE b.e
    IN NumCell(a.m * Pow10(e - a.e) + b.m * Pow10(e - b.e), e)

\* Mutant of Sum: sum(skipna=False), one NaN makes the total NaN.
SumKeepsNaN(rows, k) ==
    LET acc[i \in 0..Len(rows)] ==
            IF i = 0 THEN NumCell(0, 0)
            ELSE IF rows[i][k].t = "num" /\ acc[i - 1].t = "num" THEN Plus(acc[i - 1], rows[i][k])
            ELSE NullCell
    IN acc[Len(rows)]

\* Series.sum() of a float column: NaN is skipped.
Sum(rows, k) ==
    LET acc[i \in 0..Len(rows)] ==
            IF i = 0 THEN NumCell(0, 0)
            ELSE IF rows[i][k].t = "num" THEN Plus(acc[i - 1], rows[i][k])
            ELSE acc[i - 1]
    IN acc[Len(rows)]

\* No slider on the page.
NoSlider == [min_value |-> 0, max_value |-> 0, value |-> <<0, 0>>]

NoMetrics ==
    [total_proyectos |-> 0, inversion_innova |-> NullCell, inversion_privada |-> NullCell]

\* A run that ended before the filters: at st.stop() after the error (line
\* 64) or the hint (line 69), or at an exception that nothing catches.
NoFilters(file, table, end, line, e, page) ==
    [uploaded_file |-> file, df |-> table, slider |-> NoSlider,
     ano_seleccionado |-> <<>>, region_seleccionada |-> {}, sector_seleccionado |-> {},
     df_filtrado |-> <<>>, metrics |-> NoMetrics,
     rendered |-> {"title"} \cup page,
     outcome |-> [end |-> end, line |-> line, e |-> e]]

\* Mutant of IsEmpty: the empty result is not checked for.
IsEmptyNever(view) == FALSE

\* df_filtrado.empty (line 107)
IsEmpty(view) == Len(view) = 0

\* Lines 99-196, with the widgets' values in hand.
Present(file, table, bounds, anos, regiones, sectores) ==
    LET view == Filter(table, anos, regiones, sectores)
        base == [uploaded_file |-> file, df |-> table, slider |-> bounds,
                 ano_seleccionado |-> anos, region_seleccionada |-> regiones,
                 sector_seleccionado |-> sectores,
                 df_filtrado |-> view, metrics |-> NoMetrics,
                 rendered |-> {"title", "slider", "regiones", "sectores"},
                 outcome |-> [end |-> "done", line |-> 196, e |-> ""]]
        total == [NoMetrics EXCEPT !.total_proyectos = Len(view)]
    IN IF IsEmpty(view)
       THEN [base EXCEPT !.rendered = @ \cup {"warning"},
                         !.outcome = [end |-> "stop", line |-> 109, e |-> ""]]
       ELSE IF ~HasColumn(table, FINANCIAMIENTO_INNOVA)
       THEN [base EXCEPT !.metrics = total,
                         !.outcome = [end |-> "KeyError", line |-> 115, e |-> ""]]
       ELSE IF ~HasColumn(table, APROBADO_PRIVADO_PECUNIARIO)
       THEN [base EXCEPT !.metrics =
                             [total EXCEPT !.inversion_innova =
                                 Sum(view, ColumnOf(table, FINANCIAMIENTO_INNOVA))],
                         !.outcome = [end |-> "KeyError", line |-> 116, e |-> ""]]
       ELSE LET all ==
                    [total_proyectos |-> Len(view),
                     inversion_innova |-> Sum(view, ColumnOf(table, FINANCIAMIENTO_INNOVA)),
                     inversion_privada |-> Sum(view, ColumnOf(table, APROBADO_PRIVADO_PECUNIARIO))]
            IN IF ~HasColumn(table, TIPO_INNOVACION)
               THEN [base EXCEPT !.metrics = all,
                                 !.rendered = @ \cup {"metrics"},
                                 !.outcome = [end |-> "KeyError", line |-> 132, e |-> ""]]
               ELSE [base EXCEPT !.metrics = all,
                                 !.rendered = @ \cup {"metrics", "charts", "table", "export"}]

\* Mutant of LoadFailure: the failure is swallowed, and the run goes on to
\* the hint for a missing file.
LoadFailureSwallowed(file, e) == NoFilters(file, None, "stop", 69, "", {"info"})

\* Lines 62-64: the failure is shown with its cause and the run stops.
LoadFailure(file, e) == NoFilters(file, None, "stop", 64, e, {"error"})

\* The value a widget returns: the user's new choice when this run is the
\* answer to it; the value it held when the run before drew the same widget
\* (same bounds or options); its default otherwise.
WidgetValue(changed, choice, same, old, default) ==
    IF changed THEN choice ELSE IF same THEN old ELSE default

\* One run of the script for `file`.  `prev` is the page of the run before:
\* its table, its widgets' values and what it rendered.  `change` names the
\* widget the user moved ("none" for an upload or a removal), `choice` its
\* new value.
Run(file, prev, change, choice) ==
    IF file = None
    THEN NoFilters(file, None, "stop", 69, "", {"info"})
    ELSE LET loaded == Loaded[file] IN
    IF ~loaded.ok
    THEN LoadFailure(file, loaded.e)
    ELSE LET table == loaded.df IN
    IF ~HasColumn(table, ANO_ADJUDICACION)
    THEN NoFilters(file, table, "KeyError", 75, "", {})
    ELSE IF Years(table) = {}
    THEN NoFilters(file, table, "ValueError", 78, "", {})
    ELSE LET lo == SetMin(Years(table))
             hi == SetMax(Years(table))
             bounds == [min_value |-> lo, max_value |-> hi, value |-> <<lo, hi>>]
             anos == WidgetValue(change = "slider", choice,
                         "slider" \in prev.rendered /\ prev.slider = bounds,
                         prev.ano_seleccionado, bounds.value)
         IN
    IF ~HasColumn(table, REGION)
    THEN [NoFilters(file, table, "KeyError", 84, "", {"slider"})
             EXCEPT !.slider = bounds, !.ano_seleccionado = anos]
    ELSE LET regiones == WidgetValue(change = "regiones", choice,
                             /\ "regiones" \in prev.rendered
                             /\ Options(prev.df, REGION) = Options(table, REGION),
                             prev.region_seleccionada, Options(table, REGION))
         IN
    IF ~HasColumn(table, SECTOR_ECONOMICO)
    THEN [NoFilters(file, table, "KeyError", 92, "", {"slider", "regiones"})
             EXCEPT !.slider = bounds, !.ano_seleccionado = anos,
                    !.region_seleccionada = regiones]
    ELSE LET sectores == WidgetValue(change = "sectores", choice,
                             /\ "sectores" \in prev.rendered
                             /\ Options(prev.df, SECTOR_ECONOMICO) = Options(table, SECTOR_ECONOMICO),
                             prev.sector_seleccionado, Options(table, SECTOR_ECONOMICO))
         IN Present(file, table, bounds, anos, regiones, sectores)

\* ----------------------------------------------------------------- actions

\* The page as the last run left it.
Page ==
    [df |-> df, slider |-> slider, ano_seleccionado |-> ano_seleccionado,
     region_seleccionada |-> region_seleccionada,
     sector_seleccionado |-> sector_seleccionado, rendered |-> rendered]

\* The state a run leaves.
Becomes(r) ==
    /\ uploaded_file' = r.uploaded_file
    /\ df' = r.df
    /\ slider' = r.slider
    /\ ano_seleccionado' = r.ano_seleccionado
    /\ region_seleccionada' = r.region_seleccionada
    /\ sector_seleccionado' = r.sector_seleccionado
    /\ df_filtrado' = r.df_filtrado
    /\ metrics' = r.metrics
    /\ rendered' = r.rendered
    /\ outcome' = r.outcome
    /\ UNCHANGED <<header_vars, currency_vars>>

\* The session opens with no file: the first run stops at the hint (line 69).
DashboardInit ==
    LET r == NoFilters(None, None, "stop", 69, "", {"info"})
    IN /\ uploaded_file = r.uploaded_file
       /\ df = r.df
       /\ slider = r.slider
       /\ ano_seleccionado = r.ano_seleccionado
       /\ region_seleccionada = r.region_seleccionada
       /\ sector_seleccionado = r.sector_seleccionado
       /\ df_filtrado = r.df_filtrado
       /\ metrics = r.metrics
       /\ rendered = r.rendered
       /\ outcome = r.outcome

\* The user uploads a file: the script runs on it.  (Replacing a file is a
\* removal and an upload: it leaves a page that is reached this way too,
\* since a widget that keeps its value holds one the user can also pick.)
Upload(f) ==
    /\ uploaded_file = None
    /\ Becomes(Run(f, Page, "none", <<>>))

\* The user removes the file: the script runs without one.
RemoveFile ==
    /\ uploaded_file # None
    /\ Becomes(Run(None, Page, "none", <<>>))

\* The user drags one end of the year slider, within its bounds: the script
\* runs again on the same file.
MoveSlider(lo, hi) ==
    /\ "slider" \in rendered
    /\ lo >= slider.min_value /\ hi <= slider.max_value /\ lo <= hi
    /\ (lo = ano_seleccionado[1]) # (hi = ano_seleccionado[2])
    /\ Becomes(Run(uploaded_file, Page, "slider", <<lo, hi>>))

\* The user adds a region to the selection, or takes one out.
SelectRegions(r) ==
    /\ "regiones" \in rendered
    /\ r \in Options(df, REGION)
    /\ Becomes(Run(uploaded_file, Page, "regiones",
                   IF r \in region_seleccionada
                   THEN region_seleccionada \ {r}
                   ELSE region_seleccionada \cup {r}))

\* The user adds a sector to the selection, or takes one out.
SelectSectors(s) ==
    /\ "sectores" \in rendered
    /\ s \in Options(df, SECTOR_ECONOMICO)
    /\ Becomes(Run(uploaded_file, Page, "sectores",
                   IF s \in sector_seleccionado
                   THEN sector_seleccionado \ {s}
                   ELSE sector_seleccionado \cup {s}))

\* The region and sector names of the sample rows.
AllRegions == {<<"R","M">>, <<"B","I","O">>}
AllSectors == {<<"T","I","C">>, <<"A","G","R","O">>}

Init ==
    /\ DashboardInit
    /\ header = <<>> /\ column_name = <<>> /\ hstep = "clean"
    /\ cell = <<>> /\ cleaned = NullCell /\ cstep = "clean"

Next ==
    \/ \E f \in Files : Upload(f)
    \/ RemoveFile
    \/ \E lo \in YearStops, hi \in YearStops : MoveSlider(lo, hi)
    \/ \E r \in AllRegions : SelectRegions(r)
    \/ \E s \in AllSectors : SelectSectors(s)

Spec == Init /\ [][Next]_vars

InitHeader ==
    /\ DashboardInit
    /\ HeaderInit
    /\ cell = <<>> /\ cleaned = NullCell /\ cstep = "clean"

SpecHeader == InitHeader /\ [][StandardizeHeader]_vars

InitCurrency ==
    /\ DashboardInit
    /\ CurrencyInit
    /\ header = <<>> /\ column_name = <<>> /\ hstep = "clean"

SpecCurrency == InitCurrency /\ [][CleanAmount]_vars

\* ------------------------------------------------------------------ claims

\* The run reached the filter (lines 100-105).
FilterReached == "sectores" \in rendered

\* The record's year is in the selected range, ends included, and its region
\* and its sector are among the selected ones.
Matches(row) ==
    /\ row.year.m >= ano_seleccionado[1]
    /\ row.year.m <= ano_seleccionado[2]
    /\ row.region.t = "str" /\ row.region.s \in region_seleccionada
    /\ row.sector.t = "str" /\ row.sector.s \in sector_seleccionado

\* The positions of the table's records that match.
Kept == {i \in 1..Len(df.rows) : Matches(df.rows[i])}

\* The n-th of them, counting from the top of the table.
NthKept(n) == CHOOSE i \in Kept : Cardinality({j \in Kept : j <= i}) = n

\* C1: the filtered view holds exactly the records of the table whose year is
\* within the selected range (both ends included) and whose region and
\* sector are among the selected ones, in the table's order, none added and
\* none repeated.
C1_FilterExact ==
    FilterReached =>
        /\ Len(df_filtrado) = Cardinality(Kept)
        /\ \A n \in 1..Len(df_filtrado) : df_filtrado[n] = df.rows[NthKept(n)]

\* C1's case: of two rows, a narrowed year range keeps the second only.
C1_Witness ==
    /\ FilterReached
    /\ ano_seleccionado # slider.value
    /\ Len(df.rows) = 2
    /\ df_filtrado = <<df.rows[2]>>
    /\ df.rows[1] # df.rows[2]

\* An amount written with dots as thousands separators, after an optional
\* currency sign: one to three digits, then groups of a dot and three digits.
IsThousandsAmount(s) ==
    LET b == IF s # <<>> /\ Head(s) = "$" THEN Tail(s) ELSE s
        g == Len(b) % 4
    IN /\ g \in 1..3
       /\ Len(b) = 1 \/ b[1] # "0"
       /\ \A i \in 1..Len(b) :
              IF i > g /\ (i - g) % 4 = 1 THEN b[i] = "." ELSE b[i] \in Digits

\* C2: the coercion of an amount written with an optional currency sign and
\* dots as thousands separators yields the number its digits form.
C2_ThousandsAmountIsItsDigits ==
    (cstep = "clean" /\ IsThousandsAmount(cell)) =>
        cleaned = NumCell(DigitsToInt(SelectSeq(cell, LAMBDA c : c \in Digits)), 0)

\* The widgets hold their defaults: the whole range of years, every region
\* and every sector offered.
DefaultCriteria ==
    /\ ano_seleccionado = slider.value
    /\ region_seleccionada = Options(df, REGION)
    /\ sector_seleccionado = Options(df, SECTOR_ECONOMICO)

\* C3: with the default criteria the filtered view has as many rows as the
\* table.
C3_DefaultKeepsEveryRow ==
    (FilterReached /\ DefaultCriteria) => Len(df_filtrado) = Len(df.rows)

\* C4: when a designated column is absent after the renaming, the run does
\* not end in an error.
C4_AbsentColumnIsNoError ==
    (df.kind = "DataFrame" /\ \E c \in DOMAIN columns_to_clean : ~HasColumn(df, c)) =>
        outcome.end \in {"done", "stop"}

\* The filtered result is empty.
EmptyResult == FilterReached /\ df_filtrado = <<>>

\* The warning is on the page with the filters and nothing below them, and
\* the run stopped at line 109.
WarningState ==
    /\ "warning" \in rendered
    /\ rendered \cap {"metrics", "charts", "table", "export", "error"} = {}
    /\ outcome = [end |-> "stop", line |-> 109, e |-> ""]

\* C5: a run whose filtered result is empty shows the warning and stops
\* there, with no metrics, charts, table or export and no error; the next
\* run on the same file has the same table and offers the filters again.
C5_EmptyResultHalts ==
    [][/\ EmptyResult' => WarningState'
       /\ (EmptyResult /\ uploaded_file' = uploaded_file) => (df' = df /\ FilterReached')]_vars

\* C5's case: every region and sector is selected and the year range lies
\* between the observed years, on none of them.
C5_Witness ==
    /\ EmptyResult
    /\ df.rows # <<>>
    /\ region_seleccionada = Options(df, REGION)
    /\ sector_seleccionado = Options(df, SECTOR_ECONOMICO)
    /\ \A i \in 1..Len(df.rows) :
           /\ df.rows[i].region.t = "str" /\ df.rows[i].sector.t = "str"
           /\ df.rows[i].year.m < ano_seleccionado[1] \/ df.rows[i].year.m > ano_seleccionado[2]

\* Reading or standardising the file raises: the workbook cannot be read, or
\* its header row holds numbers only.
LoadRaises(file) ==
    \/ file.kind = "corrupt"
    \/ file.kind = "xlsx" /\ \A k \in Fields : file.headers[k].t # "str"

\* C6: when the load raises, the run shows the error with its cause and
\* stops: no filter, metric, chart, table or export, and no table is held.
C6_LoadFailureStops ==
    LoadRaises(uploaded_file) =>
        /\ rendered = {"title", "error"}
        /\ outcome = [end |-> "stop", line |-> 64,
                      e |-> IF uploaded_file.kind = "corrupt"
                            THEN uploaded_file.cause ELSE "AttributeError"]
        /\ df = None
        /\ df_filtrado = <<>>
        /\ metrics = NoMetrics

\* C6's case: an unreadable workbook was uploaded.
C6_Witness ==
    /\ uploaded_file.kind = "corrupt"
    /\ "error" \in rendered
    /\ outcome.e = "BadZipFile"

\* The amount columns, by position.
AmountFields == {"fin", "priv", "monto"}

\* The cell holds no number: it is blank, or a text without any digit.
NoNumber(c) == c.t = "null" \/ (c.t = "str" /\ \A i \in 1..Len(c.s) : c.s[i] \notin Digits)

\* The rows but the i-th.
Without(rows, i) == SubSeq(rows, 1, i - 1) \o SubSeq(rows, i + 1, Len(rows))

\* C7: a value of an amount column that holds no number becomes null, the
\* load succeeds, and the other rows are what they are when the sheet is
\* loaded without that row.
C7_BadAmountIsNull ==
    uploaded_file.kind = "xlsx" =>
        \A k \in AmountFields, i \in 1..Len(uploaded_file.rows) :
            (uploaded_file.headers[k] = GoodHeaders[k] /\ NoNumber(uploaded_file.rows[i][k])) =>
                /\ df.kind = "DataFrame"
                /\ df.rows[i][k] = NullCell
                /\ Without(df.rows, i)
                     = Load([uploaded_file EXCEPT !.rows = Without(@, i)]).df.rows

\* C7's case: "N/D" in one row, a plain amount in the other.
C7_Witness ==
    /\ uploaded_file.kind = "xlsx"
    /\ df.kind = "DataFrame"
    /\ Len(uploaded_file.rows) = 2
    /\ uploaded_file.rows[1].fin = StrCell(<<"N", "/", "D">>)
    /\ df.rows[1].fin = NullCell
    /\ df.rows[2].fin = NumCell(1500, 0)

\* C8: after a load with the year column present every year is an integer,
\* 0 where the sheet held no number, and the slider, offered whenever the
\* table has a row, has the least and the greatest of these years as its
\* bounds and as its default.
C8_YearsAndSliderBounds ==
    (df.kind = "DataFrame" /\ HasColumn(df, ANO_ADJUDICACION)) =>
        LET year(i) == df.rows[i].year
            rows == 1..Len(df.rows)
        IN /\ \A i \in rows :
                  /\ year(i).t = "num" /\ year(i).e = 0
                  /\ NoNumber(uploaded_file.rows[i].year) => year(i).m = 0
           /\ rows # {} => "slider" \in rendered
           /\ "slider" \in rendered =>
                  /\ \E i \in rows : slider.min_value = year(i).m
                  /\ \E i \in rows : slider.max_value = year(i).m
                  /\ \A i \in rows : slider.min_value <= year(i).m /\ year(i).m <= slider.max_value
                  /\ slider.value = <<slider.min_value, slider.max_value>>

\* C8's case: a year that is no number became 0 and is the slider's lower bound.
C8_Witness ==
    /\ "slider" \in rendered
    /\ Len(df.rows) = 2
    /\ uploaded_file.rows[1].year = StrCell(<<"N", "/", "D">>)
    /\ slider.min_value = 0
    /\ slider.max_value = 2018

\* An amount in units of 10^-d, null counted as 0.
Units(c, d) == IF c.t = "num" THEN c.m * Pow10(d - c.e) ELSE 0

\* The amounts of column k over the rows of the filtered view, added one
\* row at a time, in units of 10^-d.
RowByRow(k, d) ==
    LET acc[i \in 0..Len(df_filtrado)] ==
            IF i = 0 THEN 0 ELSE acc[i - 1] + Units(df_filtrado[i][k], d)
    IN acc[Len(df_filtrado)]

\* The reported total of column k is the row-by-row sum.
TotalIsRowSum(total, k) ==
    LET d == SetMax({total.e} \cup {df_filtrado[i][k].e : i \in 1..Len(df_filtrado)})
    IN total.t = "num" /\ Units(total, d) = RowByRow(k, d)

\* C9: the reported funding total and private total are the sums over the
\* rows of the filtered view, each row once and a null amount as 0, and the
\* reported count is the number of rows of the view.
C9_TotalsAreRowSums ==
    "metrics" \in rendered =>
        /\ metrics.total_proyectos = Len(df_filtrado)
        /\ TotalIsRowSum(metrics.inversion_innova, "fin")
        /\ TotalIsRowSum(metrics.inversion_privada, "priv")

\* C9's case: a view of one row out of two, whose amount is the total, the
\* other row's amount left out.
C9_Witness ==
    /\ "metrics" \in rendered
    /\ Len(df.rows) = 2
    /\ Len(df_filtrado) = 1
    /\ \E i \in 1..2 : df.rows[i] # df_filtrado[1] /\ df.rows[i].fin.t = "num"
    /\ metrics.inversion_innova = df_filtrado[1].fin
    /\ metrics.inversion_privada = NumCell(0, 0)
    /\ df_filtrado[1].priv = NullCell

\* The punctuation a header may hold.
Punctuation == {".", "(", ")", "$", "/", "-"}

\* A header in canonical form: trimmed, spaces replaced by '_',
\* punctuation removed, capitals throughout.
CanonicalForm(h) ==
    str_upper(SelectSeq(str_replace(str_strip(h), " ", "_"), LAMBDA c : c \notin Punctuation))

\* C10: every header is renamed to its canonical form.
C10_HeaderIsCanonical ==
    hstep = "clean" => column_name = CanonicalForm(header)

====
